---- MODULE Spec2Model ----
(***************************************************************************)
(* Model of KPIsOperlog/dashboard_kpis_frota.py: a Streamlit script that   *)
(* loads a fleet dataset, applies three sidebar filters and recomputes the *)
(* KPIs.  Streamlit reruns the whole script on every widget change, so     *)
(* each action below is one widget change followed by one full pass.       *)
(*                                                                         *)
(* Numbers.  Column values are integers (the column's smallest unit).  A   *)
(* value produced by a Python float division is kept as the exact ratio    *)
(* [num, den]; den = 0 stands for the undefined result (NaN, or a division *)
(* by zero).  Floating-point rounding is not modelled.                     *)
(***************************************************************************)
EXTENDS Integers, Sequences, FiniteSets

\* ---------------------------------------------------------------- bounds
MaxVeiculos == 3      \* vehicles of a small dataset
MaxDias     == 2      \* days covered by a small dataset
NumModelos  == 2      \* distinct vehicle models
MaxFrota    == 11     \* vehicles of a fleet dataset (more than TopN)

\* ------------------------------------------------------ program constants
Todos       == 0          \* 'Todos', the sentinel first option of both selectboxes
TopN        == 10         \* .head(10)
HorasPorDia == 24         \* len(df_veiculo) * 24
Percentual  == 100        \* ... * 100
PorMilhao   == 1000000    \* ... * 1000000

\* ------------------------------------------------------------------ state
VARIABLES
  df,                    \* the loaded dataset (line 28)
  date_range,            \* the tuple st.date_input returns: 0, 1 or 2 days
  modelo_selecionado,    \* Todos or a model
  veiculo_selecionado,   \* Todos or a vehicle id
  df_filtrado, df_operacional,
  km_total, consumo_medio, custo_total, cpk, acidentes_total,
  custos_categoria, custos_veiculo, utilizacao_frota, parada_veiculo,
  disponibilidade_data, df_disponibilidade, seguranca_data, df_seguranca,
  erro,                  \* the exception that ended the last pass, or SemErro
  foto                   \* history variable: one earlier state, or SemFoto

\* ------------------------------------------------------------ conversions
\* pd.to_datetime(date): the timestamp of that day's midnight, in hours.
ToDatetime(dia) == dia * 24
\* Timestamp -> date, as st.date_input does with min_value / max_value / value.
ToDate(ts) == ts \div 24

Razao(n, d) == [num |-> n, den |-> d]

\* --------------------------------------------------------------- datasets
\* Value columns of one vehicle-day.
Perfis ==
  << [KM_Rodado |-> 2, Media_Consumo_KML |-> 3, Custo_Combustivel |-> 2,
      Custo_Manutencao |-> 0, Custo_Multas |-> 0,
      Tempo_Parada_Manutencao_Horas |-> 0, Acidentes |-> 0],
     [KM_Rodado |-> 0, Media_Consumo_KML |-> 0, Custo_Combustivel |-> 0,
      Custo_Manutencao |-> 3, Custo_Multas |-> 1,
      Tempo_Parada_Manutencao_Horas |-> 30, Acidentes |-> 1],
     [KM_Rodado |-> 1, Media_Consumo_KML |-> 2, Custo_Combustivel |-> 0,
      Custo_Manutencao |-> 0, Custo_Multas |-> 0,
      Tempo_Parada_Manutencao_Horas |-> 24, Acidentes |-> 1],
     [KM_Rodado |-> 0, Media_Consumo_KML |-> 0, Custo_Combustivel |-> 0,
      Custo_Manutencao |-> 0, Custo_Multas |-> 0,
      Tempo_Parada_Manutencao_Horas |-> 0, Acidentes |-> 0],
     [KM_Rodado |-> 3, Media_Consumo_KML |-> 1, Custo_Combustivel |-> 1,
      Custo_Manutencao |-> 1, Custo_Multas |-> 1,
      Tempo_Parada_Manutencao_Horas |-> 5, Acidentes |-> 0] >>

\* A vehicle keeps one model over all its records.
ModeloDe(v) == ((v - 1) % NumModelos) + 1

Linha(dia, v, p) ==
  [Data |-> ToDatetime(dia), ID_Veiculo |-> v, Modelo |-> ModeloDe(v),
   KM_Rodado |-> p.KM_Rodado, Media_Consumo_KML |-> p.Media_Consumo_KML,
   Custo_Combustivel |-> p.Custo_Combustivel,
   Custo_Manutencao |-> p.Custo_Manutencao, Custo_Multas |-> p.Custo_Multas,
   Tempo_Parada_Manutencao_Horas |-> p.Tempo_Parada_Manutencao_Horas,
   Acidentes |-> p.Acidentes]

\* Vehicle 2 stands idle in maintenance; the others are on the road.
PerfilBase(v) == IF v = 2 THEN Perfis[2] ELSE Perfis[<<1, 3, 5>>[((v - 1) % 3) + 1]]

\* One record per vehicle, spread over nd days.
LinhasBase(nv, nd) == [v \in 1..nv |-> Linha(((v - 1) % nd) + 1, v, PerfilBase(v))]

\* The base records, alone or followed by one more record of any vehicle,
\* day and profile.
Datasets(nv, nd) ==
  {LinhasBase(nv, nd)} \cup
  {LinhasBase(nv, nd) \o <<Linha(d, v, Perfis[i])>> :
     d \in 1..nd, v \in 1..nv, i \in 1..Len(Perfis)}

\* ------------------------------------------------------- pandas helpers
RECURSIVE Soma(_, _)
Soma(d, col) == IF d = <<>> THEN 0 ELSE d[1][col] + Soma(Tail(d), col)

Coluna(d, col) == [i \in 1..Len(d) |-> d[i][col]]

\* Series.unique(): the distinct values in order of first appearance.
RECURSIVE Unique(_)
Unique(s) ==
  IF s = <<>> THEN <<>>
  ELSE <<s[1]>> \o Unique(SelectSeq(Tail(s), LAMBDA x : x # s[1]))

Min(S) == CHOOSE x \in S : \A y \in S : x <= y
Max(S) == CHOOSE x \in S : \A y \in S : x >= y

\* groupby(col): the group keys, sorted ascending.
RECURSIVE Ordenado(_)
Ordenado(S) == IF S = {} THEN <<>> ELSE <<Min(S)>> \o Ordenado(S \ {Min(S)})

Chaves(d, col) == Ordenado({d[i][col] : i \in 1..Len(d)})

Onde(d, col, val) == SelectSeq(d, LAMBDA r : r[col] = val)


\* ----------------------------------------------------- sorting and head
\* The sort key of a row: ratio columns hold [num, den], the others integers.
ColunasRazao == {"Disponibilidade", "Indice_Acidentes_por_Milhao_KM"}

Chave(r, col) == IF col \in ColunasRazao THEN r[col] ELSE Razao(r[col], 1)

\* a < b for ratios with positive denominators.
Menor(a, b) == a.num * b.den < b.num * a.den

\* x goes after every row that does not have to follow it: rows with equal
\* keys keep their order (the sort is stable for tables of this size).
RECURSIVE Inserir(_, _, _, _)
Inserir(s, x, col, ascending) ==
  IF s = <<>> THEN <<x>>
  ELSE IF (IF ascending THEN Menor(Chave(x, col), Chave(s[1], col))
                        ELSE Menor(Chave(s[1], col), Chave(x, col)))
       THEN <<x>> \o s
       ELSE <<s[1]>> \o Inserir(Tail(s), x, col, ascending)

RECURSIVE OrdenarDe(_, _, _, _)
OrdenarDe(feito, resto, col, ascending) ==
  IF resto = <<>> THEN feito
  ELSE OrdenarDe(Inserir(feito, resto[1], col, ascending), Tail(resto), col, ascending)

\* DataFrame.sort_values(col, ascending=...)
sort_values(t, col, ascending) == OrdenarDe(<<>>, t, col, ascending)

\* DataFrame.head(n)
head(t, n) == SubSeq(t, 1, IF Len(t) < n THEN Len(t) ELSE n)

\* pd.DataFrame(list of dicts): the columns are the keys of the dicts, so an
\* empty list gives a frame without columns.
Colunas(data) == IF data = <<>> THEN {} ELSE DOMAIN data[1]

\* sort_values raises KeyError for a column the frame does not have.
LevantaKeyError(data, col) == col \notin Colunas(data)

\* ---------------------------------------------------------- the filters
\* Mutation of FiltroData: the end of the range left out.
FiltroDataFimExclusivo(d, dr) ==
  IF Len(dr) = 2
  THEN SelectSeq(d, LAMBDA r : /\ r.Data >= ToDatetime(dr[1])
                               /\ r.Data < ToDatetime(dr[2]))
  ELSE d

\* Mutation of FiltroData: a lone start date taken as a range that runs to the
\* dataset's last day.
FiltroDataUmaPonta(d, dr) ==
  IF Len(dr) = 2
  THEN SelectSeq(d, LAMBDA r : /\ r.Data >= ToDatetime(dr[1])
                               /\ r.Data <= ToDatetime(dr[2]))
  ELSE IF Len(dr) = 1
  THEN SelectSeq(d, LAMBDA r : r.Data >= ToDatetime(dr[1]))
  ELSE d

FiltroData(d, dr) ==
  IF Len(dr) = 2
  THEN SelectSeq(d, LAMBDA r : /\ r.Data >= ToDatetime(dr[1])
                               /\ r.Data <= ToDatetime(dr[2]))
  ELSE d

\* Mutation of FiltroModelo: the selection of the pass before is applied.
FiltroModeloAnterior(d, m) ==
  IF modelo_selecionado # Todos THEN Onde(d, "Modelo", modelo_selecionado) ELSE d

FiltroModelo(d, m) == IF m # Todos THEN Onde(d, "Modelo", m) ELSE d

FiltroVeiculo(d, v) == IF v # Todos THEN Onde(d, "ID_Veiculo", v) ELSE d

Filtrar(d, dr, m, v) == FiltroVeiculo(FiltroModelo(FiltroData(d, dr), m), v)

Operacional(d) == SelectSeq(d, LAMBDA r : r.KM_Rodado > 0)

\* ------------------------------------------------------ headline metrics
KmTotal(op) == Soma(op, "KM_Rodado")

\* Series.mean(): sum / count, undefined (NaN) over no rows.
ConsumoMedio(op) == Razao(Soma(op, "Media_Consumo_KML"), Len(op))

RECURSIVE SomaLinhas(_)
SomaLinhas(d) ==
  IF d = <<>> THEN 0
  ELSE (d[1].Custo_Combustivel + d[1].Custo_Manutencao + d[1].Custo_Multas)
       + SomaLinhas(Tail(d))

\* Mutation of CustoTotal: the fines left out of the per-record sum.
RECURSIVE CustoTotalSemMultas(_)
CustoTotalSemMultas(d) ==
  IF d = <<>> THEN 0
  ELSE (d[1].Custo_Combustivel + d[1].Custo_Manutencao) + CustoTotalSemMultas(Tail(d))

\* Mutation of CustoTotal: the cost of the days on the road only.
CustoTotalOperacional(d) == SomaLinhas(Operacional(d))

CustoTotal(d) == SomaLinhas(d)

\* Mutation of Cpk: the division without its guard.
CpkSemGuarda(custo, km) == Razao(custo, km)

Cpk(custo, km) == IF km > 0 THEN Razao(custo, km) ELSE Razao(0, 1)

AcidentesTotal(d) == Soma(d, "Acidentes")

\* ----------------------------------------------------------- cost tables
CustosCategoria(d) ==
  << [Categoria |-> "Combustivel", Valor |-> Soma(d, "Custo_Combustivel")],
     [Categoria |-> "Manutencao",  Valor |-> Soma(d, "Custo_Manutencao")],
     [Categoria |-> "Multas",      Valor |-> Soma(d, "Custo_Multas")] >>

CustosPorVeiculo(d) ==
  LET ks == Chaves(d, "ID_Veiculo")
      g(k) == Onde(d, "ID_Veiculo", k)
  IN  [i \in 1..Len(ks) |->
        [ID_Veiculo |-> ks[i],
         Custo_Combustivel |-> Soma(g(ks[i]), "Custo_Combustivel"),
         Custo_Manutencao  |-> Soma(g(ks[i]), "Custo_Manutencao"),
         Custo_Multas      |-> Soma(g(ks[i]), "Custo_Multas"),
         Custo_Total |-> Soma(g(ks[i]), "Custo_Combustivel")
                         + Soma(g(ks[i]), "Custo_Manutencao")
                         + Soma(g(ks[i]), "Custo_Multas")]]

\* Mutation of CustosVeiculo: head() taken before the sort.
CustosVeiculoHeadAntes(d) ==
  sort_values(head(CustosPorVeiculo(d), TopN), "Custo_Total", FALSE)

CustosVeiculo(d) == head(sort_values(CustosPorVeiculo(d), "Custo_Total", FALSE), TopN)

\* groupby('ID_Veiculo')[col].sum().reset_index()
SomaPorVeiculo(d, col) ==
  LET ks == Chaves(d, "ID_Veiculo")
  IN  [i \in 1..Len(ks) |->
        [ID_Veiculo |-> ks[i], valor |-> Soma(Onde(d, "ID_Veiculo", ks[i]), col)]]

UtilizacaoFrota(op) ==
  LET t == SomaPorVeiculo(op, "KM_Rodado")
      u == [i \in 1..Len(t) |-> [ID_Veiculo |-> t[i].ID_Veiculo, KM_Rodado |-> t[i].valor]]
  IN  head(sort_values(u, "KM_Rodado", FALSE), TopN)

ParadaVeiculo(d) ==
  LET t == SomaPorVeiculo(d, "Tempo_Parada_Manutencao_Horas")
      u == [i \in 1..Len(t) |-> [ID_Veiculo |-> t[i].ID_Veiculo,
                                 Tempo_Parada_Manutencao_Horas |-> t[i].valor]]
  IN  head(sort_values(u, "Tempo_Parada_Manutencao_Horas", FALSE), TopN)

\* ----------------------------------------------------------- availability
\* Mutation of TempoTotalPossivel: only the days on the road counted.
TempoTotalOperacional(df_veiculo) ==
  Len(SelectSeq(df_veiculo, LAMBDA r : r.KM_Rodado > 0)) * HorasPorDia

TempoTotalPossivel(df_veiculo) == Len(df_veiculo) * HorasPorDia

Disponibilidade(df_veiculo) ==
  Razao((TempoTotalPossivel(df_veiculo)
           - Soma(df_veiculo, "Tempo_Parada_Manutencao_Horas")) * Percentual,
        TempoTotalPossivel(df_veiculo))

DisponibilidadeData(d) ==
  LET vs == Unique(Coluna(d, "ID_Veiculo"))
  IN  [i \in 1..Len(vs) |->
        [Veiculo |-> vs[i],
         Disponibilidade |-> Disponibilidade(Onde(d, "ID_Veiculo", vs[i]))]]

DfDisponibilidade(data) == head(sort_values(data, "Disponibilidade", TRUE), TopN)

\* ----------------------------------------------------------- accident rate
\* Mutation of IndiceAcidentes: the division without its guard.
IndiceSemGuarda(acidentes, km) == Razao(acidentes * PorMilhao, km)

IndiceAcidentes(acidentes, km) ==
  IF km > 0 THEN Razao(acidentes * PorMilhao, km) ELSE Razao(0, 1)

SegurancaData(d) ==
  LET ms == Unique(Coluna(d, "Modelo"))
  IN  [i \in 1..Len(ms) |->
        [Modelo |-> ms[i],
         Indice_Acidentes_por_Milhao_KM |->
           IndiceAcidentes(Soma(Onde(d, "Modelo", ms[i]), "Acidentes"),
                           Soma(Onde(d, "Modelo", ms[i]), "KM_Rodado"))]]

DfSeguranca(data) == sort_values(data, "Indice_Acidentes_por_Milhao_KM", FALSE)


\* ------------------------------------------------------- state, grouped
controles == <<date_range, modelo_selecionado, veiculo_selecionado>>

resultados ==
  <<df_filtrado, df_operacional, km_total, consumo_medio, custo_total, cpk,
    acidentes_total, custos_categoria, custos_veiculo, utilizacao_frota,
    parada_veiculo, disponibilidade_data, df_disponibilidade, seguranca_data,
    df_seguranca, erro>>

vars == <<df, controles, resultados, foto>>

SemErro == "none"
KeyErrorDisponibilidade == "KeyError: 'Disponibilidade'"
KeyErrorIndice == "KeyError: 'Indice_Acidentes_por_Milhao_KM'"

\* A name the pass did not reach before it raised holds no table.
NaoAtribuido == <<>>

SemFoto == <<>>

\* ------------------------------------------------------- sidebar widgets
min_date(d) == Min({d[i].Data : i \in 1..Len(d)})
max_date(d) == Max({d[i].Data : i \in 1..Len(d)})

\* st.date_input(value=(min_date, max_date), min_value, max_value): a tuple of
\* days within the bounds, start before or at end; shorter while the user is
\* still picking.
OpcoesPeriodo(d) ==
  LET dias == ToDate(min_date(d)) .. ToDate(max_date(d))
  IN  {<<>>} \cup {<<a>> : a \in dias}
      \cup {p \in {<<a, b>> : a \in dias, b \in dias} : p[1] <= p[2]}

modelos_disponiveis(d) == {Todos} \cup {d[i].Modelo : i \in 1..Len(d)}

veiculos_disponiveis(d) == {Todos} \cup {d[i].ID_Veiculo : i \in 1..Len(d)}

\* st.cache_data: every pass gets the dataset read by the first one.
load_data == df

\* ---------------------------------------------------------------- one pass
\* Lines 51-348 for dataset d and the widget values dr, m, v.  The first
\* sort_values of a frame built from an empty list raises, and the names
\* assigned after it stay unassigned.
Executar(d, dr, m, v) ==
  LET filtrado == Filtrar(d, dr, m, v)
      op       == Operacional(filtrado)
      km       == KmTotal(op)
      custo    == CustoTotal(filtrado)
      disp     == DisponibilidadeData(filtrado)
      caiu285  == LevantaKeyError(disp, "Disponibilidade")
      seg      == IF caiu285 THEN NaoAtribuido ELSE SegurancaData(filtrado)
      caiu348  == ~caiu285 /\ LevantaKeyError(seg, "Indice_Acidentes_por_Milhao_KM")
  IN  [df_filtrado          |-> filtrado,
       df_operacional       |-> op,
       km_total             |-> km,
       consumo_medio        |-> ConsumoMedio(op),
       custo_total          |-> custo,
       cpk                  |-> Cpk(custo, km),
       acidentes_total      |-> AcidentesTotal(filtrado),
       custos_categoria     |-> CustosCategoria(filtrado),
       custos_veiculo       |-> CustosVeiculo(filtrado),
       utilizacao_frota     |-> UtilizacaoFrota(op),
       parada_veiculo       |-> ParadaVeiculo(filtrado),
       disponibilidade_data |-> disp,
       df_disponibilidade   |-> IF caiu285 THEN NaoAtribuido ELSE DfDisponibilidade(disp),
       seguranca_data       |-> seg,
       df_seguranca         |-> IF caiu285 \/ caiu348 THEN NaoAtribuido ELSE DfSeguranca(seg),
       erro                 |-> IF caiu285 THEN KeyErrorDisponibilidade
                                ELSE IF caiu348 THEN KeyErrorIndice ELSE SemErro]

\* The first pass: the widgets return their defaults.
Primeira(d) ==
  /\ df = d
  /\ date_range = <<ToDate(min_date(d)), ToDate(max_date(d))>>
  /\ modelo_selecionado = Todos
  /\ veiculo_selecionado = Todos
  /\ \E r \in {Executar(d, date_range, modelo_selecionado, veiculo_selecionado)} :
      /\ df_filtrado = r.df_filtrado
      /\ df_operacional = r.df_operacional
      /\ km_total = r.km_total
      /\ consumo_medio = r.consumo_medio
      /\ custo_total = r.custo_total
      /\ cpk = r.cpk
      /\ acidentes_total = r.acidentes_total
      /\ custos_categoria = r.custos_categoria
      /\ custos_veiculo = r.custos_veiculo
      /\ utilizacao_frota = r.utilizacao_frota
      /\ parada_veiculo = r.parada_veiculo
      /\ disponibilidade_data = r.disponibilidade_data
      /\ df_disponibilidade = r.df_disponibilidade
      /\ seguranca_data = r.seguranca_data
      /\ df_seguranca = r.df_seguranca
      /\ erro = r.erro
      /\ foto = SemFoto

\* The rerun Streamlit starts after a widget change: the whole script again,
\* with the widgets returning their new values.
Rerun(dr, m, v) ==
  \E r \in {Executar(load_data, dr, m, v)} :
      /\ df' = load_data
      /\ date_range' = dr
      /\ modelo_selecionado' = m
      /\ veiculo_selecionado' = v
      /\ df_filtrado' = r.df_filtrado
      /\ df_operacional' = r.df_operacional
      /\ km_total' = r.km_total
      /\ consumo_medio' = r.consumo_medio
      /\ custo_total' = r.custo_total
      /\ cpk' = r.cpk
      /\ acidentes_total' = r.acidentes_total
      /\ custos_categoria' = r.custos_categoria
      /\ custos_veiculo' = r.custos_veiculo
      /\ utilizacao_frota' = r.utilizacao_frota
      /\ parada_veiculo' = r.parada_veiculo
      /\ disponibilidade_data' = r.disponibilidade_data
      /\ df_disponibilidade' = r.df_disponibilidade
      /\ seguranca_data' = r.seguranca_data
      /\ df_seguranca' = r.df_seguranca
      /\ erro' = r.erro
      /\ foto' = foto

\* ---------------------------------------------------------------- actions
DateInput(dr) ==
  /\ dr \in OpcoesPeriodo(df)
  /\ dr # date_range
  /\ Rerun(dr, modelo_selecionado, veiculo_selecionado)

SelectboxModelo(m) ==
  /\ m \in modelos_disponiveis(df)
  /\ m # modelo_selecionado
  /\ Rerun(date_range, m, veiculo_selecionado)

SelectboxVeiculo(v) ==
  /\ v \in veiculos_disponiveis(df)
  /\ v # veiculo_selecionado
  /\ Rerun(date_range, modelo_selecionado, v)

\* History only: remember the present state.
Fotografar ==
  /\ foto' = [df |-> df, controles |-> controles, resultados |-> resultados]
  /\ UNCHANGED <<df, controles, resultados>>

\* Small datasets.
Init == \E nv \in 1..MaxVeiculos, nd \in 1..MaxDias : \E d \in Datasets(nv, nd) : Primeira(d)

\* Fleets of at least TopN vehicles.
InitFrota == \E nv \in TopN..MaxFrota : \E d \in Datasets(nv, 1) : Primeira(d)

\* Few datasets, for the runs that carry the history variable.
InitHist == \E nv \in 1..MaxVeiculos, nd \in 1..MaxDias : Primeira(LinhasBase(nv, nd))

Next ==
  \/ \E dr \in OpcoesPeriodo(df) : DateInput(dr)
  \/ \E m \in modelos_disponiveis(df) : SelectboxModelo(m)
  \/ \E v \in veiculos_disponiveis(df) : SelectboxVeiculo(v)

NextHist == Next \/ Fotografar

Spec == Init /\ [][Next]_vars

SpecFrota == InitFrota /\ [][Next]_vars

SpecHist == InitHist /\ [][NextHist]_vars


\* =================================================================== claims
\* What the claims say, written over the state without the operators of the
\* pass.

RECURSIVE SomaIdx(_, _, _)
SomaIdx(d, I, col) ==
  IF I = {} THEN 0
  ELSE LET i == CHOOSE x \in I : TRUE IN d[i][col] + SomaIdx(d, I \ {i}, col)

\* The sum of a column over the rows of d whose column `por` holds `val`.
TotalOnde(d, por, val, col) == SomaIdx(d, {i \in DOMAIN d : d[i][por] = val}, col)

TotalDe(d, col) == SomaIdx(d, DOMAIN d, col)

CustoDaLinha(r) == r.Custo_Combustivel + r.Custo_Manutencao + r.Custo_Multas

RECURSIVE CustoIdx(_, _)
CustoIdx(d, I) ==
  IF I = {} THEN 0
  ELSE LET i == CHOOSE x \in I : TRUE IN CustoDaLinha(d[i]) + CustoIdx(d, I \ {i})

DiaDe(r) == ToDate(r.Data)

PassaModelo(r) == modelo_selecionado = Todos \/ r.Modelo = modelo_selecionado

PassaVeiculo(r) == veiculo_selecionado = Todos \/ r.ID_Veiculo = veiculo_selecionado

PassaPeriodo(r) == date_range[1] <= DiaDe(r) /\ DiaDe(r) <= date_range[2]

EhZero(q) == q.num = 0 /\ q.den # 0

CustosZerados == \A i \in DOMAIN df_filtrado : CustoDaLinha(df_filtrado[i]) = 0

VeiculosDe(d) == {d[i].ID_Veiculo : i \in DOMAIN d}

ModelosDe(d) == {d[i].Modelo : i \in DOMAIN d}

\* ----------------------------------------------------------------------- C1
\* C1: with a complete date range the Filtered View is exactly the records of
\* the dataset, in dataset order, whose day lies within [start, end] (both ends
\* included) and that match the model filter (or it is 'Todos') and the
\* vehicle filter (or it is 'Todos'); applying the three filters in any other
\* order gives the same view.
C1_VistaFiltrada ==
  Len(date_range) = 2 =>
    /\ df_filtrado = SelectSeq(df, LAMBDA r : PassaPeriodo(r) /\ PassaModelo(r) /\ PassaVeiculo(r))
    /\ df_filtrado = FiltroData(FiltroModelo(FiltroVeiculo(df, veiculo_selecionado),
                                             modelo_selecionado), date_range)
    /\ df_filtrado = FiltroModelo(FiltroData(FiltroVeiculo(df, veiculo_selecionado),
                                             date_range), modelo_selecionado)
    /\ df_filtrado = FiltroVeiculo(FiltroData(FiltroModelo(df, modelo_selecionado),
                                              date_range), veiculo_selecionado)

\* A one-day range and a model selected: a record of the range's last day is
\* kept, one record is dropped for its date alone and one for its model alone.
C1_Witness ==
  /\ Len(date_range) = 2
  /\ modelo_selecionado # Todos
  /\ \E i \in DOMAIN df_filtrado : DiaDe(df_filtrado[i]) = date_range[2]
  /\ \E i \in DOMAIN df : PassaModelo(df[i]) /\ ~PassaPeriodo(df[i])
  /\ \E i \in DOMAIN df : PassaPeriodo(df[i]) /\ ~PassaModelo(df[i])

\* ----------------------------------------------------------------------- C2
\* C2: when the filters exclude every row the pass still completes without
\* raising, and every aggregate has a result: the sums are 0, the
\* zero-fallback ratios are 0 and the tables are empty.
C2_VistaVaziaCompleta ==
  df_filtrado = <<>> =>
    /\ erro = SemErro
    /\ km_total = 0 /\ custo_total = 0 /\ acidentes_total = 0
    /\ EhZero(cpk)
    /\ \A k \in DOMAIN custos_categoria : custos_categoria[k].Valor = 0
    /\ custos_veiculo = <<>> /\ utilizacao_frota = <<>> /\ parada_veiculo = <<>>
    /\ df_disponibilidade = <<>> /\ df_seguranca = <<>>

\* ----------------------------------------------------------------------- C3
\* C3: the headline total cost (the three costs added per record, then
\* totalled over the Filtered View) equals the sum of the three values of the
\* cost-category breakdown, each the total of one cost column over the same
\* view.
C3_CustoTotalPorCategoria ==
  /\ custo_total = CustoIdx(df_filtrado, DOMAIN df_filtrado)
  /\ custos_categoria[1].Valor = TotalDe(df_filtrado, "Custo_Combustivel")
  /\ custos_categoria[2].Valor = TotalDe(df_filtrado, "Custo_Manutencao")
  /\ custos_categoria[3].Valor = TotalDe(df_filtrado, "Custo_Multas")
  /\ custo_total = custos_categoria[1].Valor + custos_categoria[2].Valor
                   + custos_categoria[3].Valor

\* A filtered view of several records with a cost in each category.
C3_Witness ==
  /\ modelo_selecionado # Todos
  /\ Len(df_filtrado) >= 2
  /\ \A k \in DOMAIN custos_categoria : custos_categoria[k].Valor > 0
  /\ custo_total > 0

\* ----------------------------------------------------------------------- C4
\* C4: cost_per_km is total_cost / total_km when total_km > 0 and exactly 0
\* otherwise, total_cost being summed over the whole Filtered View (idle
\* records included) and total_km over the records with km_driven > 0; so
\* cost_per_km * total_km = total_cost whenever total_km > 0.
C4_CustoPorKm ==
  /\ custo_total = CustoIdx(df_filtrado, DOMAIN df_filtrado)
  /\ km_total = SomaIdx(df_filtrado,
                        {i \in DOMAIN df_filtrado : df_filtrado[i].KM_Rodado > 0},
                        "KM_Rodado")
  /\ km_total > 0 => cpk.den # 0 /\ cpk.num * km_total = custo_total * cpk.den
  /\ ~(km_total > 0) => EhZero(cpk)

\* total_km > 0 and the view holds an idle record whose cost is part of the
\* ratio.
C4_Witness ==
  /\ veiculo_selecionado # Todos
  /\ km_total > 0
  /\ \E i \in DOMAIN df_filtrado :
       df_filtrado[i].KM_Rodado = 0 /\ CustoDaLinha(df_filtrado[i]) > 0
  /\ cpk.num * km_total = custo_total * cpk.den
  /\ cpk.num > 0


\* ----------------------------------------------------------------------- C5
\* What a top-10 ranking t of the vehicles `grupos` has to be: Val(v) is the
\* ranking value of vehicle v, Melhor(a, b) says that a ranks strictly before b.
RankingCerto(t, id, col, grupos, Val(_), Melhor(_, _)) ==
  /\ Len(t) <= 10
  /\ Cardinality(grupos) >= 10 => Len(t) = 10
  /\ Cardinality(grupos) < 10 => Len(t) = Cardinality(grupos)
  /\ \A i \in DOMAIN t : t[i][id] \in grupos /\ t[i][col] = Val(t[i][id])
  /\ \A i, j \in DOMAIN t : i # j => t[i][id] # t[j][id]
  /\ \A i, j \in DOMAIN t : i < j => ~Melhor(t[j][col], t[i][col])
  /\ \A v \in grupos \ {t[i][id] : i \in DOMAIN t} :
       \A i \in DOMAIN t : ~Melhor(Val(v), t[i][col])

Maior(a, b) == a > b

CustoDoVeiculo(v) ==
  CustoIdx(df_filtrado, {i \in DOMAIN df_filtrado : df_filtrado[i].ID_Veiculo = v})

KmDoVeiculo(v) == TotalOnde(df_operacional, "ID_Veiculo", v, "KM_Rodado")

ParadaDoVeiculo(v) ==
  TotalOnde(df_filtrado, "ID_Veiculo", v, "Tempo_Parada_Manutencao_Horas")

RegistrosDoVeiculo(v) ==
  Cardinality({i \in DOMAIN df_filtrado : df_filtrado[i].ID_Veiculo = v})

\* (24 * record_count - sum(downtime)) / (24 * record_count) * 100
DisponibilidadeDoVeiculo(v) ==
  Razao((24 * RegistrosDoVeiculo(v) - ParadaDoVeiculo(v)) * 100,
        24 * RegistrosDoVeiculo(v))

\* C5: each of the four top-10 rankings (cost, km over the Operational
\* Subview, downtime, availability) has at most 10 rows, exactly 10 when the
\* view it is built from has at least 10 distinct vehicles, one row per
\* distinct vehicle with that vehicle's value, is ordered non-increasing
\* (cost, km, downtime) or non-decreasing (availability), and leaves out no
\* vehicle with a strictly better value than one it keeps.
C5_Rankings ==
  /\ RankingCerto(custos_veiculo, "ID_Veiculo", "Custo_Total",
                  VeiculosDe(df_filtrado), CustoDoVeiculo, Maior)
  /\ RankingCerto(utilizacao_frota, "ID_Veiculo", "KM_Rodado",
                  VeiculosDe(df_operacional), KmDoVeiculo, Maior)
  /\ RankingCerto(parada_veiculo, "ID_Veiculo", "Tempo_Parada_Manutencao_Horas",
                  VeiculosDe(df_filtrado), ParadaDoVeiculo, Maior)
  /\ RankingCerto(df_disponibilidade, "Veiculo", "Disponibilidade",
                  VeiculosDe(df_filtrado), DisponibilidadeDoVeiculo, Menor)

\* After a change of the date control that keeps every record in the view:
\* more than 10 vehicles, at least 10 of them on the road; every ranking has 10
\* rows, and the vehicle the cost ranking leaves out comes before a kept one
\* in the dataset.
C5_Witness ==
  /\ modelo_selecionado = Todos /\ veiculo_selecionado = Todos
  /\ Len(date_range) = 1
  /\ Cardinality(VeiculosDe(df_filtrado)) > TopN
  /\ Cardinality(VeiculosDe(df_operacional)) >= TopN
  /\ Len(custos_veiculo) = TopN /\ Len(utilizacao_frota) = TopN
  /\ Len(parada_veiculo) = TopN /\ Len(df_disponibilidade) = TopN
  /\ \E v \in VeiculosDe(df_filtrado) \ {custos_veiculo[i].ID_Veiculo : i \in DOMAIN custos_veiculo} :
       \E i \in DOMAIN custos_veiculo : custos_veiculo[i].ID_Veiculo > v
  /\ custos_veiculo[1].Custo_Total > custos_veiculo[TopN].Custo_Total

\* ----------------------------------------------------------------------- C6
\* C6: for every vehicle of the Filtered View the availability is
\* (24 * record_count - sum(downtime)) / (24 * record_count) * 100, its divisor
\* is never zero, and it lies within [0, 100] whenever every record of the
\* vehicle has a downtime between 0 and 24 hours.
C6_Disponibilidade ==
  /\ {disponibilidade_data[i].Veiculo : i \in DOMAIN disponibilidade_data}
       = VeiculosDe(df_filtrado)
  /\ \A i \in DOMAIN disponibilidade_data :
       LET v == disponibilidade_data[i].Veiculo
           a == disponibilidade_data[i].Disponibilidade
       IN  /\ a = DisponibilidadeDoVeiculo(v)
           /\ RegistrosDoVeiculo(v) >= 1
           /\ a.den > 0
           /\ (\A k \in DOMAIN df_filtrado :
                 df_filtrado[k].ID_Veiculo = v =>
                   /\ 0 <= df_filtrado[k].Tempo_Parada_Manutencao_Horas
                   /\ df_filtrado[k].Tempo_Parada_Manutencao_Horas <= 24)
              => 0 <= a.num /\ a.num <= 100 * a.den

\* After a change of the date control: a vehicle with a record of more than 24
\* hours of downtime and a negative availability, beside a vehicle of several records strictly between 0 and 100.
C6_Witness ==
  /\ Len(date_range) < 2
  /\ \E i \in DOMAIN disponibilidade_data :
       /\ disponibilidade_data[i].Disponibilidade.num < 0
       /\ \E k \in DOMAIN df_filtrado :
            /\ df_filtrado[k].ID_Veiculo = disponibilidade_data[i].Veiculo
            /\ df_filtrado[k].Tempo_Parada_Manutencao_Horas > 24
  /\ \E i \in DOMAIN disponibilidade_data :
       LET a == disponibilidade_data[i].Disponibilidade
       IN  /\ RegistrosDoVeiculo(disponibilidade_data[i].Veiculo) >= 2
           /\ 0 < a.num /\ a.num < 100 * a.den


\* ----------------------------------------------------------------------- C7
KmDoModelo(m) == TotalOnde(df_filtrado, "Modelo", m, "KM_Rodado")

AcidentesDoModelo(m) == TotalOnde(df_filtrado, "Modelo", m, "Acidentes")

IndiceDoModelo(m) ==
  LET i == CHOOSE k \in DOMAIN seguranca_data : seguranca_data[k].Modelo = m
  IN  seguranca_data[i].Indice_Acidentes_por_Milhao_KM

TemIndice(m) == \E k \in DOMAIN seguranca_data : seguranca_data[k].Modelo = m

\* C7 as stated: if the three cost columns are zero on every record of the
\* Filtered View then total_cost = 0, cost_per_km = 0 (an actual zero) and the
\* accident rate of every model of the view with sum(km_driven) > 0 is 0.
C7_CustosZeradosOriginal ==
  CustosZerados =>
    /\ custo_total = 0
    /\ EhZero(cpk)
    /\ \A m \in ModelosDe(df_filtrado) :
         KmDoModelo(m) > 0 => TemIndice(m) /\ EhZero(IndiceDoModelo(m))

\* C7 amended: if the three cost columns are zero on every record of the
\* Filtered View then total_cost = 0 and cost_per_km = 0 (an actual zero); the
\* accident rate of a model of the view with sum(km_driven) > 0 is
\* sum(accidents) / sum(km_driven) * 1,000,000, which is 0 exactly when the
\* model has no accident in the view, whatever the costs.
C7_CustosZerados ==
  CustosZerados =>
    /\ custo_total = 0
    /\ EhZero(cpk)
    /\ \A m \in ModelosDe(df_filtrado) :
         KmDoModelo(m) > 0 =>
           /\ TemIndice(m)
           /\ IndiceDoModelo(m).den # 0
           /\ IndiceDoModelo(m).num * KmDoModelo(m)
                = AcidentesDoModelo(m) * 1000000 * IndiceDoModelo(m).den
           /\ EhZero(IndiceDoModelo(m)) <=> AcidentesDoModelo(m) = 0

\* A view without any cost in which a model has driven and had an accident:
\* total_cost and cost_per_km are 0, the model's accident rate is not.
C7_Witness ==
  /\ df_filtrado # <<>>
  /\ CustosZerados
  /\ custo_total = 0 /\ EhZero(cpk)
  /\ \E m \in ModelosDe(df_filtrado) :
       /\ KmDoModelo(m) > 0 /\ AcidentesDoModelo(m) > 0
       /\ IndiceDoModelo(m).num > 0

\* ----------------------------------------------------------------------- C8
\* C8: the accident-rate table has exactly one row per distinct model of the
\* Filtered View; a model's rate is sum(accidents) / sum(km_driven) * 1,000,000
\* over its records of the full view when sum(km_driven) > 0 and exactly 0 when
\* sum(km_driven) = 0, accidents or not; the rows are sorted by rate,
\* non-increasing.
C8_IndiceAcidentes ==
  /\ {df_seguranca[i].Modelo : i \in DOMAIN df_seguranca} = ModelosDe(df_filtrado)
  /\ Len(df_seguranca) = Cardinality(ModelosDe(df_filtrado))
  /\ \A i \in DOMAIN df_seguranca :
       LET m  == df_seguranca[i].Modelo
           ix == df_seguranca[i].Indice_Acidentes_por_Milhao_KM
       IN  /\ ix.den # 0
           /\ KmDoModelo(m) > 0 =>
                ix.num * KmDoModelo(m) = AcidentesDoModelo(m) * 1000000 * ix.den
           /\ KmDoModelo(m) = 0 => ix.num = 0
  /\ \A i, j \in DOMAIN df_seguranca :
       i < j => ~Menor(df_seguranca[i].Indice_Acidentes_por_Milhao_KM,
                       df_seguranca[j].Indice_Acidentes_por_Milhao_KM)

\* After a change of the date control, two models in the view: one with
\* accidents over a positive distance, listed first, and
\* one with an accident but no distance, whose rate is 0.
C8_Witness ==
  /\ Len(date_range) # 2
  /\ Len(df_seguranca) = 2
  /\ df_seguranca[1].Indice_Acidentes_por_Milhao_KM.num > 0
  /\ KmDoModelo(df_seguranca[2].Modelo) = 0
  /\ AcidentesDoModelo(df_seguranca[2].Modelo) > 0
  /\ EhZero(df_seguranca[2].Indice_Acidentes_por_Milhao_KM)

\* ----------------------------------------------------------------------- C9
\* C9: after any sequence of filter changes, each followed by a full pass, the
\* dataset is the one that was loaded (same records, order and values) and the
\* results are those any earlier pass gave for the same values of the three
\* controls: they depend on the dataset and the current controls only.
C9_SoDependeDosControles ==
  foto # SemFoto =>
    /\ df = foto.df
    /\ controles = foto.controles => resultados = foto.resultados

\* The controls were moved away from a remembered setting and are back at it,
\* with the view narrower than the dataset.
C9_Witness ==
  /\ foto # SemFoto
  /\ controles = foto.controles
  /\ modelo_selecionado # Todos
  /\ df_filtrado # <<>>
  /\ Len(df_filtrado) < Len(df)

\* ---------------------------------------------------------------------- C10
\* C10: when the date control supplies one endpoint or none, no date
\* constraint is applied: the Filtered View is the records of the dataset that
\* pass the model and vehicle filters, of every date; the missing endpoint is
\* not replaced by the dataset's first or last day.
C10_PeriodoIncompleto ==
  Len(date_range) # 2 =>
    df_filtrado = SelectSeq(df, LAMBDA r : PassaModelo(r) /\ PassaVeiculo(r))

\* A lone endpoint after the dataset's first day, and a record of an earlier
\* day still in the view.
C10_Witness ==
  /\ Len(date_range) = 1
  /\ \E i \in DOMAIN df_filtrado : DiaDe(df_filtrado[i]) < date_range[1]
  /\ \E i \in DOMAIN df_filtrado : DiaDe(df_filtrado[i]) >= date_range[1]

====
